---- MODULE Spec2Model ----
(***************************************************************************)
(* A model of src/src/loops.py: find_loops (the randomized search for      *)
(* closed walking routes), its duplicate-node check taken alone, and       *)
(* filter_similar_loops (the similarity deduplication).                    *)
(*                                                                         *)
(* Numbers.  Python floats are modelled by exact integer arithmetic:       *)
(*   - a distance is an integer number of tenths of a kilometre;           *)
(*   - a fraction (tolerance, max_percentage_of_duplicate_nodes,           *)
(*     similarity_threshold) is an integer number of hundredths, so the    *)
(*     code's  a <= f * b  is modelled as  a * 100 <= f * b.               *)
(* geopy's ellipsoidal geodesic is modelled by the rounded-down planar     *)
(* distance between grid coordinates; the claims use only that it is a     *)
(* fixed non-negative function of the two coordinates.                     *)
(***************************************************************************)
EXTENDS Integers, Sequences, FiniteSets

VARIABLES
    \* ---- find_loops: arguments (read-only during the run)
    G,                                 \* the graph's arcs, a set of <<u, v>>
    start_node,
    target_distance_km,
    num_attempts,
    tolerance,
    max_percentage_of_duplicate_nodes,
    \* ---- find_loops: locals
    pc,                                \* "loop" | "returned" (| "check" | "checked")
    i,                                 \* iterations of the for loop begun so far
    random_nodes,                      \* set of ordered pairs already tried
    loops,                             \* the result list of <<path, d>>
    node1, node2,                      \* the last sampled waypoints (0: unbound)
    full_path,                         \* the last concatenated path
    d,                                 \* the last computed length (-1: unbound)
    outcome,                           \* how the last iteration ended
    oracle_attempts,                   \* history: per unordered pair, the number of
                                       \* iterations that called nx.shortest_path
    \* ---- filter_similar_loops
    f_input,                           \* the argument loops of the current call
    similarity_threshold,
    f_pc,                              \* "idle" | "loop" | "returned" | "done"
    f_idx,                             \* loops of f_input consumed so far
    unique_loops,
    seen,
    kept,                              \* history: per consumed loop, was it retained
    call,                              \* 1: first call, 2: call on the first result
    first_input,                       \* the argument of the first call
    first_result                       \* what the first call returned

find_vars == <<G, start_node, target_distance_km, num_attempts, tolerance,
               max_percentage_of_duplicate_nodes, pc, i, random_nodes, loops,
               node1, node2, full_path, d, outcome, oracle_attempts>>

filter_vars == <<f_input, similarity_threshold, f_pc, f_idx, unique_loops, seen,
                 kept, call, first_input, first_result>>

vars == <<find_vars, filter_vars>>

----------------------------------------------------------------------------
(* Bounds of the model *)

\* the largest attempt budget of a run
MaxAttempts == 2

\* the longest path handed to the duplicate-node check taken alone
MaxPathLen == 4

\* the longest loop list handed to filter_similar_loops
MaxLoops == 3

----------------------------------------------------------------------------
(* The graph collaborator: four nodes on the corners of a unit square *)

Nodes == {1, 2, 3, 4}

\* G.nodes[n]['y'], G.nodes[n]['x']
Coord(n) == CASE n = 1 -> <<0, 0>>
              [] n = 2 -> <<0, 1>>
              [] n = 3 -> <<1, 1>>
              [] n = 4 -> <<1, 0>>

Both(E) == E \cup {<<e[2], e[1]>> : e \in E}

\* the square A-B-C-D-A walked in both directions
Square == Both({<<1, 2>>, <<2, 3>>, <<3, 4>>, <<4, 1>>})

\* the triangle 1-2-3 with a one-way spur 3 -> 4
TriangleSpur == Both({<<1, 2>>, <<2, 3>>, <<1, 3>>}) \cup {<<3, 4>>}

\* a one-way street 2 -> 3 and an isolated node 4
OneWay == {<<1, 2>>, <<2, 1>>, <<2, 3>>}

Graphs == {Square, TriangleSpur, OneWay}

Isqrt(n) == CHOOSE r \in 0..n : r * r <= n /\ n < (r + 1) * (r + 1)

Abs(x) == IF x < 0 THEN -x ELSE x

\* geodesic(p1, p2).km, in tenths of a kilometre
geodesic(p1, p2) ==
    Isqrt(100 * ((p1[1] - p2[1]) * (p1[1] - p2[1]) + (p1[2] - p2[2]) * (p1[2] - p2[2])))

RECURSIVE SumDist(_, _)
SumDist(path, k) ==
    IF k >= Len(path) THEN 0
    ELSE geodesic(Coord(path[k]), Coord(path[k + 1])) + SumDist(path, k + 1)

\* path_length_km(G, path): the sum over range(len(path)-1)
path_length_km(path) == SumDist(path, 1)

\* the simple node sequences over Nodes
SimplePaths ==
    {p \in UNION {[1..n -> Nodes] : n \in 1..Cardinality(Nodes)} :
        \A a, b \in 1..Len(p) : a # b => p[a] # p[b]}

\* the paths of graph g from s to t
PathsIn(g, s, t) ==
    {p \in SimplePaths :
        /\ p[1] = s /\ p[Len(p)] = t
        /\ \A k \in 1..(Len(p) - 1) : <<p[k], p[k + 1]>> \in g}

\* the edge attribute 'length' summed along a path
weight(p) == path_length_km(p)

\* the cheapest paths of graph g from s to t
Cheapest(g, s, t) ==
    LET ps == PathsIn(g, s, t)
    IN  {p \in ps : \A q \in ps : weight(p) <= weight(q)}

\* the oracle's answers <<g, s, t, path>>, computed once
Oracle ==
    UNION {{<<g, s, t, p>> : p \in Cheapest(g, s, t)} :
              g \in Graphs, s \in Nodes, t \in Nodes}

\* nx.shortest_path(G, s, t, weight='length'): the set of answers it may give
\* (ties are broken by the library); the empty set stands for NetworkXNoPath
shortest_path(g, s, t) ==
    {a[4] : a \in {o \in Oracle : o[1] = g /\ o[2] = s /\ o[3] = t}}

NoPath(g, s, t) == shortest_path(g, s, t) = {}

----------------------------------------------------------------------------
(* find_loops, piece by piece *)

\* np.random.choice(nodes, 2): two draws with replacement
random_choice(nodes) == nodes \X nodes

\* (node1, node2) in random_nodes
already_tried(rn, n1, n2) == <<n1, n2>> \in rn

\* random_nodes.add((node1, node2)); random_nodes.add((node2, node1))
record_RecordOneOrder(rn, n1, n2) == rn \cup {<<n1, n2>>}
record(rn, n1, n2) == rn \cup {<<n1, n2>>, <<n2, n1>>}

InPath(n, path) == \E k \in 1..Len(path) : path[k] = n

\* (node1 in path3) or (node2 in path1)
aligned_BothRequired(n1, n2, path1, path3) == InPath(n1, path3) /\ InPath(n2, path1)
aligned(n1, n2, path1, path3) == InPath(n1, path3) \/ InPath(n2, path1)

\* path1 + path2[1:] + path3[1:]
concat_ThirdLegDropped(path1, path2, path3) == path1 \o Tail(path2)
concat(path1, path2, path3) == path1 \o Tail(path2) \o Tail(path3)

Distinct(path) == Cardinality({path[k] : k \in 1..Len(path)})

\* len_path_without_duplicates <= max_percentage_of_duplicate_nodes * len_path
too_many_duplicates_Strict(path, thr) == Distinct(path) * 100 < thr * Len(path)
too_many_duplicates(path, thr) == Distinct(path) * 100 <= thr * Len(path)

\* abs(d - target_distance_km) <= target_distance_km * tolerance
within_tolerance_NoAbs(dist, target, tol) == (dist - target) * 100 <= target * tol
within_tolerance(dist, target, tol) == Abs(dist - target) * 100 <= target * tol

----------------------------------------------------------------------------
(* find_loops as a state machine: one action per way an iteration can end *)

Pairs == {{a, b} : a, b \in Nodes}

StartNodes == {1, 2}
TargetDistances == {30, 35, 40}
Tolerances == {0, 10}
DuplicateThresholds == {50, 80, 100}
AttemptBudgets == {-1, 0, MaxAttempts}

FilterIdle ==
    /\ f_input = <<>> /\ similarity_threshold = 0 /\ f_pc = "idle" /\ f_idx = 0
    /\ unique_loops = <<>> /\ seen = <<>> /\ kept = <<>> /\ call = 0
    /\ first_input = <<>> /\ first_result = <<>>

\* the state on entry to find_loops, lines 20-24
Init ==
    /\ G \in Graphs
    /\ start_node \in StartNodes
    /\ target_distance_km \in TargetDistances
    /\ num_attempts \in AttemptBudgets
    /\ tolerance \in Tolerances
    /\ max_percentage_of_duplicate_nodes \in DuplicateThresholds
    /\ pc = "loop"
    /\ i = 0
    /\ random_nodes = {}
    /\ loops = <<>>
    /\ node1 = 0 /\ node2 = 0
    /\ full_path = <<>>
    /\ d = -1
    /\ outcome = "none"
    /\ oracle_attempts = [p \in Pairs |-> 0]
    /\ FilterIdle

Args == <<G, start_node, target_distance_km, num_attempts, tolerance,
          max_percentage_of_duplicate_nodes>>

\* for _ in range(num_attempts): one more iteration begins
Begin(n1, n2) ==
    /\ pc = "loop"
    /\ i < num_attempts
    /\ i' = i + 1
    /\ node1' = n1 /\ node2' = n2
    /\ UNCHANGED <<Args, filter_vars>>

\* lines 31-34: the pair is recorded and the try block is entered
Tried(n1, n2) ==
    /\ ~already_tried(random_nodes, n1, n2)
    /\ random_nodes' = record(random_nodes, n1, n2)
    /\ oracle_attempts' = [oracle_attempts EXCEPT ![{n1, n2}] = @ + 1]

\* lines 29-30: the pair was already tried, continue
AttemptSkipped(n1, n2) ==
    /\ Begin(n1, n2)
    /\ already_tried(random_nodes, n1, n2)
    /\ outcome' = "skipped"
    /\ pc' = "loop"
    /\ UNCHANGED <<random_nodes, loops, full_path, d, oracle_attempts>>

\* lines 35-37, 58-59: a leg has no path, except nx.NetworkXNoPath: continue
AttemptNoPath_Break(n1, n2) ==
    /\ Begin(n1, n2)
    /\ Tried(n1, n2)
    /\ \/ NoPath(G, start_node, n1)
       \/ NoPath(G, n1, n2)
       \/ NoPath(G, n2, start_node)
    /\ outcome' = "nopath"
    /\ pc' = "returned"
    /\ UNCHANGED <<loops, full_path, d>>

AttemptNoPath(n1, n2) ==
    /\ Begin(n1, n2)
    /\ Tried(n1, n2)
    /\ \/ NoPath(G, start_node, n1)
       \/ NoPath(G, n1, n2)
       \/ NoPath(G, n2, start_node)
    /\ outcome' = "nopath"
    /\ pc' = "loop"
    /\ UNCHANGED <<loops, full_path, d>>

\* lines 35-41: the three legs exist and the three points are aligned, continue
AttemptAligned(n1, n2) ==
    /\ Begin(n1, n2)
    /\ Tried(n1, n2)
    /\ \E path1 \in shortest_path(G, start_node, n1),
          path2 \in shortest_path(G, n1, n2),
          path3 \in shortest_path(G, n2, start_node) :
            aligned(n1, n2, path1, path3)
    /\ outcome' = "aligned"
    /\ pc' = "loop"
    /\ UNCHANGED <<loops, full_path, d>>

\* lines 43-50: too much back and forth, continue
AttemptTooManyDuplicates(n1, n2) ==
    /\ Begin(n1, n2)
    /\ Tried(n1, n2)
    /\ \E path1 \in shortest_path(G, start_node, n1),
          path2 \in shortest_path(G, n1, n2),
          path3 \in shortest_path(G, n2, start_node) :
            /\ ~aligned(n1, n2, path1, path3)
            /\ full_path' = concat(path1, path2, path3)
            /\ too_many_duplicates(full_path', max_percentage_of_duplicate_nodes)
    /\ outcome' = "duplicates"
    /\ pc' = "loop"
    /\ UNCHANGED <<loops, d>>

\* lines 52-54: the length is computed and is not near the target
AttemptOutOfTolerance(n1, n2) ==
    /\ Begin(n1, n2)
    /\ Tried(n1, n2)
    /\ \E path1 \in shortest_path(G, start_node, n1),
          path2 \in shortest_path(G, n1, n2),
          path3 \in shortest_path(G, n2, start_node) :
            /\ ~aligned(n1, n2, path1, path3)
            /\ full_path' = concat(path1, path2, path3)
            /\ ~too_many_duplicates(full_path', max_percentage_of_duplicate_nodes)
            /\ d' = path_length_km(full_path')
            /\ ~within_tolerance(d', target_distance_km, tolerance)
    /\ outcome' = "out_of_tolerance"
    /\ pc' = "loop"
    /\ UNCHANGED loops

\* lines 52-56: loops.append((full_path, d))
AttemptAccepted(n1, n2) ==
    /\ Begin(n1, n2)
    /\ Tried(n1, n2)
    /\ \E path1 \in shortest_path(G, start_node, n1),
          path2 \in shortest_path(G, n1, n2),
          path3 \in shortest_path(G, n2, start_node) :
            /\ ~aligned(n1, n2, path1, path3)
            /\ full_path' = concat(path1, path2, path3)
            /\ ~too_many_duplicates(full_path', max_percentage_of_duplicate_nodes)
            /\ d' = path_length_km(full_path')
            /\ within_tolerance(d', target_distance_km, tolerance)
    /\ loops' = Append(loops, <<full_path', d'>>)
    /\ outcome' = "accepted"
    /\ pc' = "loop"

\* line 60: the range is exhausted, return loops
Return ==
    /\ pc = "loop"
    /\ i >= num_attempts
    /\ pc' = "returned"
    /\ UNCHANGED <<Args, i, random_nodes, loops, node1, node2, full_path, d,
                   outcome, oracle_attempts, filter_vars>>

Next ==
    \/ \E c \in random_choice(Nodes) : AttemptSkipped(c[1], c[2])
    \/ \E c \in random_choice(Nodes) : AttemptNoPath(c[1], c[2])
    \/ \E c \in random_choice(Nodes) : AttemptAligned(c[1], c[2])
    \/ \E c \in random_choice(Nodes) : AttemptTooManyDuplicates(c[1], c[2])
    \/ \E c \in random_choice(Nodes) : AttemptOutOfTolerance(c[1], c[2])
    \/ \E c \in random_choice(Nodes) : AttemptAccepted(c[1], c[2])
    \/ Return

Spec == Init /\ [][Next]_vars

----------------------------------------------------------------------------
(* The duplicate-node check of find_loops (lines 45-50) taken alone, on any *)
(* non-empty node sequence                                                  *)

CheckedPaths == UNION {[1..n -> Nodes] : n \in 1..MaxPathLen}
CheckedThresholds == {0, 50, 80, 99, 100}

InitDup ==
    /\ G = Square
    /\ start_node = 1
    /\ target_distance_km = 40
    /\ num_attempts = 0
    /\ tolerance = 10
    /\ max_percentage_of_duplicate_nodes \in CheckedThresholds
    /\ pc = "check"
    /\ i = 0
    /\ random_nodes = {}
    /\ loops = <<>>
    /\ node1 = 0 /\ node2 = 0
    /\ full_path \in CheckedPaths
    /\ d = -1
    /\ outcome = "none"
    /\ oracle_attempts = [p \in Pairs |-> 0]
    /\ FilterIdle

\* lines 45-50: the check rejects the path, continue
DupRejected ==
    /\ pc = "check"
    /\ too_many_duplicates(full_path, max_percentage_of_duplicate_nodes)
    /\ outcome' = "duplicates"
    /\ pc' = "checked"
    /\ UNCHANGED <<Args, i, random_nodes, loops, node1, node2, full_path, d,
                   oracle_attempts, filter_vars>>

\* lines 45-52: the check lets the path through to the length computation
DupPassed ==
    /\ pc = "check"
    /\ ~too_many_duplicates(full_path, max_percentage_of_duplicate_nodes)
    /\ outcome' = "passed"
    /\ pc' = "checked"
    /\ UNCHANGED <<Args, i, random_nodes, loops, node1, node2, full_path, d,
                   oracle_attempts, filter_vars>>

NextDup == DupRejected \/ DupPassed

SpecDup == InitDup /\ [][NextDup]_vars

----------------------------------------------------------------------------
(* filter_similar_loops, called on a loop list and then on its own result *)

Loop(path) == <<path, path_length_km(path)>>

NodeSet(path) == {path[k] : k \in 1..Len(path)}

LoopPool == {Loop(<<1, 2, 3, 4, 1>>), Loop(<<1, 4, 3, 2, 1>>), Loop(<<1, 2, 3, 1>>),
             Loop(<<1, 2, 1>>), Loop(<<3, 4, 3>>), Loop(<<>>)}

SimilarityThresholds == {60, 75, 80}

\* lines 107-110: sim = intersection / union if union else 0; sim > similarity_threshold
exceeds_AtLeast(nodes, prev_nodes, thr) ==
    LET intersection == Cardinality(nodes \cap prev_nodes)
        union == Cardinality(nodes \cup prev_nodes)
    IN  IF union # 0 THEN intersection * 100 >= thr * union ELSE 0 >= thr

exceeds(nodes, prev_nodes, thr) ==
    LET intersection == Cardinality(nodes \cap prev_nodes)
        union == Cardinality(nodes \cup prev_nodes)
    IN  IF union # 0 THEN intersection * 100 > thr * union ELSE 0 > thr

\* lines 104-112: the scan of seen
too_similar(nodes, seen_sets, thr) ==
    \E k \in 1..Len(seen_sets) : exceeds(nodes, seen_sets[k], thr)

\* line 115: unique_loops.append((path, dist))
retain_Prepend(list, loop) == <<loop>> \o list
retain(list, loop) == Append(list, loop)

FindIdle ==
    /\ G = Square
    /\ start_node = 1
    /\ target_distance_km = 40
    /\ num_attempts = 0
    /\ tolerance = 10
    /\ max_percentage_of_duplicate_nodes = 50
    /\ pc = "returned"
    /\ i = 0
    /\ random_nodes = {}
    /\ loops = <<>>
    /\ node1 = 0 /\ node2 = 0
    /\ full_path = <<>>
    /\ d = -1
    /\ outcome = "none"
    /\ oracle_attempts = [p \in Pairs |-> 0]

\* lines 97-100, on entry to the first call
InitFilter ==
    /\ FindIdle
    /\ f_input \in UNION {[1..n -> LoopPool] : n \in 0..MaxLoops}
    /\ similarity_threshold \in SimilarityThresholds
    /\ f_pc = "loop"
    /\ f_idx = 0
    /\ unique_loops = <<>>
    /\ seen = <<>>
    /\ kept = <<>>
    /\ call = 1
    /\ first_input = f_input
    /\ first_result = <<>>

\* lines 102-116 for a loop that is not too similar: it is appended
FilterRetain ==
    /\ f_pc = "loop"
    /\ f_idx < Len(f_input)
    /\ LET loop == f_input[f_idx + 1]
           nodes == NodeSet(loop[1])
       IN  /\ ~too_similar(nodes, seen, similarity_threshold)
           /\ unique_loops' = retain(unique_loops, loop)
           /\ seen' = Append(seen, nodes)
    /\ kept' = Append(kept, TRUE)
    /\ f_idx' = f_idx + 1
    /\ UNCHANGED <<find_vars, f_input, similarity_threshold, f_pc, call,
                   first_input, first_result>>

\* lines 102-114 for a loop that is too similar to a seen one: nothing is appended
FilterDiscard ==
    /\ f_pc = "loop"
    /\ f_idx < Len(f_input)
    /\ LET loop == f_input[f_idx + 1]
           nodes == NodeSet(loop[1])
       IN  too_similar(nodes, seen, similarity_threshold)
    /\ kept' = Append(kept, FALSE)
    /\ f_idx' = f_idx + 1
    /\ UNCHANGED <<find_vars, f_input, similarity_threshold, f_pc, call,
                   first_input, first_result, unique_loops, seen>>

\* line 118: return unique_loops
FilterReturn ==
    /\ f_pc = "loop"
    /\ f_idx = Len(f_input)
    /\ f_pc' = "returned"
    /\ UNCHANGED <<find_vars, f_input, similarity_threshold, f_idx, unique_loops,
                   seen, kept, call, first_input, first_result>>

\* the result of the first call is handed to a second call, same threshold
FilterAgain ==
    /\ f_pc = "returned"
    /\ call = 1
    /\ first_result' = unique_loops
    /\ f_input' = unique_loops
    /\ call' = 2
    /\ f_pc' = "loop"
    /\ f_idx' = 0
    /\ unique_loops' = <<>>
    /\ seen' = <<>>
    /\ kept' = <<>>
    /\ UNCHANGED <<find_vars, similarity_threshold, first_input>>

NextFilter == FilterRetain \/ FilterDiscard \/ FilterReturn \/ FilterAgain

SpecFilter == InitFilter /\ [][NextFilter]_vars

----------------------------------------------------------------------------
(* The claims *)

\* C1: every (path, length) pair of the result list accumulated by find_loops, at
\* every point of the attempt loop and at return, has
\* |length - target| <= target * tolerance.
C1_AcceptedWithinTolerance ==
    \A k \in 1..Len(loops) :
        Abs(loops[k][2] - target_distance_km) * 100 <= target_distance_km * tolerance

\* a loop was accepted and the attempt loop is still running
C1_Witness == pc = "loop" /\ i < num_attempts /\ Len(loops) >= 1

\* C2: an iteration that samples a pair already recorded, in either order, is
\* skipped with no oracle call, and no unordered pair has the oracle called for it
\* in more than one iteration.
C2_PairTriedAtMostOnce ==
    [][i' = i + 1 =>
        /\ (<<node1', node2'>> \in random_nodes \/ <<node2', node1'>> \in random_nodes)
              => (outcome' = "skipped" /\ oracle_attempts' = oracle_attempts)
        /\ \A p \in Pairs : oracle_attempts'[p] <= 1]_vars

\* a pair of two different nodes was sampled again and skipped
C2_Witness ==
    outcome = "skipped" /\ node1 # node2 /\ oracle_attempts[{node1, node2}] = 1

InvalidConfiguration ==
    \/ tolerance <= 0
    \/ max_percentage_of_duplicate_nodes >= 100
    \/ num_attempts < 0

\* C3: with an invalid configuration (tolerance <= 0, duplicate threshold >= 1,
\* negative attempt budget) find_loops fails before any pair is sampled and before
\* any oracle call: it neither begins an iteration nor returns a result.
C3_InvalidConfigurationFailsFast ==
    InvalidConfiguration =>
        /\ i = 0
        /\ \A p \in Pairs : oracle_attempts[p] = 0
        /\ pc # "returned"

\* C4: the two waypoints drawn in an iteration are distinct.
C4_WaypointsDistinct == i > 0 => node1 # node2

RECURSIVE Select(_, _)
Select(list, flags) ==
    IF list = <<>> THEN <<>>
    ELSE IF Head(flags) THEN <<Head(list)>> \o Select(Tail(list), Tail(flags))
         ELSE Select(Tail(list), Tail(flags))

JaccardAbove(a, b, thr) ==
    Cardinality(a \cap b) * 100 > thr * Cardinality(a \cup b)

\* C5: the result of filter_similar_loops is the input with some loops left out,
\* in input order; a loop is left out only if an earlier loop of the input that was
\* itself retained has Jaccard similarity with it strictly above the threshold; the
\* first loop is always retained.
C5_DiscardOnlyLaterDuplicates ==
    /\ Len(kept) = f_idx
    /\ unique_loops = Select(SubSeq(f_input, 1, f_idx), kept)
    /\ f_idx >= 1 => kept[1]
    /\ \A k \in 1..f_idx :
          ~kept[k] =>
              \E j \in 1..(k - 1) :
                  /\ kept[j]
                  /\ JaccardAbove(NodeSet(f_input[k][1]), NodeSet(f_input[j][1]),
                                  similarity_threshold)

\* the first call returned having discarded the second loop and retained the third
C5_Witness ==
    /\ call = 1 /\ f_pc = "returned"
    /\ kept = <<TRUE, FALSE, TRUE>>

\* C6: filter_similar_loops called on its own result with the same threshold
\* returns that result unchanged (same loops, same order).
C6_FilterIdempotent ==
    (call = 2 /\ f_pc = "returned") => unique_loops = first_result

\* the second call returned, after a first call that discarded a loop and
\* retained two
C6_Witness ==
    /\ call = 2 /\ f_pc = "returned"
    /\ Len(first_result) >= 2
    /\ Len(first_result) < Len(first_input)

\* C7: every path of the result list of find_loops begins and ends at start_node.
C7_LoopsClosedAtStart ==
    \A k \in 1..Len(loops) :
        LET path == loops[k][1]
        IN  Len(path) >= 1 /\ path[1] = start_node /\ path[Len(path)] = start_node

\* the last iteration appended the path it built
C7_Witness ==
    /\ outcome = "accepted"
    /\ loops # <<>>
    /\ loops[Len(loops)][1] = full_path

EveryNodeTwice(path) ==
    \A n \in NodeSet(path) : Cardinality({k \in 1..Len(path) : path[k] = n}) = 2

\* C8: the duplicate-node check lets a path through only if
\* distinct > threshold * total, strictly: a path whose distinct/total ratio equals
\* the threshold is rejected (every node visited exactly twice, threshold 0.5), and
\* a path with no repeated node passes for every threshold below 1.
C8_DuplicateCheckStrict ==
    pc = "checked" =>
        /\ outcome = "passed" =>
              Distinct(full_path) * 100 > max_percentage_of_duplicate_nodes * Len(full_path)
        /\ Distinct(full_path) * 100 = max_percentage_of_duplicate_nodes * Len(full_path)
              => outcome = "duplicates"
        /\ (EveryNodeTwice(full_path) /\ max_percentage_of_duplicate_nodes = 50)
              => outcome = "duplicates"
        /\ (Distinct(full_path) = Len(full_path) /\ max_percentage_of_duplicate_nodes < 100)
              => outcome = "passed"

\* a path visiting every node exactly twice was checked against threshold 0.5
C8_Witness ==
    /\ pc = "checked"
    /\ EveryNodeTwice(full_path)
    /\ max_percentage_of_duplicate_nodes = 50
    /\ outcome = "duplicates"

\* C9: an iteration in which a leg has no path changes nothing in the result list,
\* leaves the pair recorded as tried in both orders, raises nothing (the loop goes
\* on), and find_loops returns only once the whole attempt budget is used.
C9_NoPathSkipsOnlyThatAttempt ==
    [][/\ (i' = i + 1 /\ outcome' = "nopath") =>
              /\ loops' = loops
              /\ pc' = "loop"
              /\ <<node1', node2'>> \in random_nodes'
              /\ <<node2', node1'>> \in random_nodes'
       /\ pc' = "returned" => i' >= num_attempts']_vars

\* a leg had no path in an iteration that followed an accepted loop
C9_Witness == outcome = "nopath" /\ pc = "loop" /\ Len(loops) >= 1

\* C10: no loop is accepted in an iteration whose waypoints coincide with each
\* other or with the start node.
C10_DegenerateSampleRejected ==
    outcome = "accepted" =>
        /\ node1 # node2
        /\ node1 # start_node
        /\ node2 # start_node

\* a degenerate sample had its three legs and was rejected by the alignment check
C10_Witness ==
    /\ outcome = "aligned"
    /\ (node1 = node2 \/ node1 = start_node \/ node2 = start_node)

====
